---- MODULE Spec2Model ----
(***************************************************************************)
(* Model of src/bin/pgcopydb/pgcmd.c: the discovery of the PostgreSQL      *)
(* client programs (find_pg_commands and the strategies it runs).          *)
(*                                                                         *)
(* A path is a pair <<directory, file name>>; the zeroed buffer is <<>>.   *)
(* The process environment (PG_CONFIG, PATH) and the file system are       *)
(* chosen in Init and never change; the program state is the caller's     *)
(* PostgresPaths, the position in find_pg_commands, and the trace of the   *)
(* calls that reach outside the process (PATH scans, subprocess launches,  *)
(* releases of a Program, log records).                                    *)
(***************************************************************************)
EXTENDS Integers, Sequences, FiniteSets, TLC

VARIABLES
    env,         \* [PG_CONFIG, PATH]: the process environment
    fs,          \* the file system and what the programs found on it answer
    pgPaths,     \* the caller's PostgresPaths
    pc,          \* position in find_pg_commands
    exitCode,    \* argument of exit() once the process has terminated
    strategies,  \* the strategies find_pg_commands has run, with their results
    events,      \* trace of PATH scans, subprocesses, releases and log records
    dump         \* the call of pg_dump_db that followed, if any

vars == <<env, fs, pgPaths, pc, exitCode, strategies, events, dump>>

----------------------------------------------------------------------------
(* Bounds of the model *)

\* longest PATH (number of entries) the model enumerates
MaxPathLen == 2

\* capacity of the command buffer of pg_dump_db and of the line arrays of
\* log_program_output: BUFSIZE of defaults.h, scaled down
BUFSIZE == 80

----------------------------------------------------------------------------
(* The world outside the program *)

UsrBin   == "/usr/bin"
LocalBin == "/usr/local/bin"
PgBin    == "/usr/lib/postgresql/14/bin"

\* directories a PATH entry may name
PathDirs == {UsrBin, LocalBin}
\* all directories of the file system
Dirs == PathDirs \cup {PgBin}

NoPath == <<>>
NoExit == "<running>"

MkPath(dir, name) == <<dir, name>>
DirOf(path) == IF path = NoPath THEN "" ELSE path[1]
NameOf(path) == IF path = NoPath THEN "" ELSE path[2]

\* the version a working program installed in each directory reports
VersionAt == [d \in Dirs |->
                 IF d = UsrBin THEN "13.2"
                 ELSE IF d = LocalBin THEN "14.9" ELSE "15.1"]

VersionTokens == {VersionAt[d] : d \in Dirs}

RECURSIVE SeqsUpTo(_, _)
SeqsUpTo(S, n) ==
    IF n = 0 THEN {<<>>}
    ELSE LET shorter == SeqsUpTo(S, n - 1)
         IN  shorter \cup {Append(s, x) : s \in shorter, x \in S}

EXIT_CODE_PGCTL == "EXIT_CODE_PGCTL"

----------------------------------------------------------------------------
(* File system and environment helpers (file_utils.c, env_utils.c) *)

RealFiles == {"r1", "r2"}
Absent == "absent"
Unresolvable == "unresolvable"

\* file_exists: a psql or pg_config entry of a directory, or one of the
\* sibling tools, which exist in every directory or in none
file_exists(path) ==
    /\ path # NoPath
    /\ DirOf(path) \in Dirs
    /\ CASE NameOf(path) = "psql" -> fs.psql[DirOf(path)]
         [] NameOf(path) = "pg_config" ->
                DirOf(path) \in PathDirs /\ fs.pg_config[DirOf(path)] # Absent
         [] OTHER -> NameOf(path) \in fs.siblings

\* an environment variable is [set, fits, value]: whether it is set, whether
\* its value fits a MAXPGPATH buffer, and the value
env_exists(name) == env[name].set

\* get_env_copy fails when the variable is unset or its value does not fit
get_env_copy(name) ==
    [ok |-> env[name].set /\ env[name].fits, value |-> env[name].value]

\* join_path_components(result, dir, name)
join_path_components(dir, name) == MkPath(dir, name)

\* path_in_same_directory(basePath, fileName, result)
path_in_same_directory(basePath, fileName) ==
    IF basePath = NoPath THEN MkPath("", fileName)
    ELSE MkPath(DirOf(basePath), fileName)

\* search_path(filename, &result): every PATH entry holding the file, in
\* PATH order; fails when PATH cannot be read
search_path(filename) ==
    IF ~env.PATH.set THEN [ok |-> FALSE, found |-> 0, matches |-> <<>>]
    ELSE LET hit == SelectSeq(env.PATH.value,
                        LAMBDA d : file_exists(MkPath(d, filename)))
             all == [i \in 1..Len(hit) |-> MkPath(hit[i], filename)]
         IN  [ok |-> TRUE, found |-> Len(all), matches |-> all]

\* search_path_first(filename, result, logLevel): the first match
search_path_first(filename) ==
    LET paths == search_path(filename)
    IN  IF ~paths.ok \/ paths.found = 0
        THEN [ok |-> FALSE, result |-> NoPath]
        ELSE [ok |-> TRUE, result |-> paths.matches[1]]

\* realpath of a pg_config entry: the real file it names
realpath(path) ==
    LET r == fs.pg_config[DirOf(path)]
    IN  [ok |-> r \in RealFiles, real |-> r]

RECURSIVE dedup_from(_, _, _)
dedup_from(matches, i, kept) ==
    IF i > Len(matches) THEN kept
    ELSE LET real == realpath(matches[i]).real
             seen == \E k \in 1..Len(kept) : realpath(kept[k]).real = real
         IN  dedup_from(matches, i + 1,
                        IF seen THEN kept ELSE Append(kept, matches[i]))

\* search_path_deduplicate_symlinks(&all, &result): keeps the first entry of
\* each real file; fails when an entry cannot be resolved
search_path_deduplicate_symlinks(all) ==
    IF \E i \in 1..all.found : ~realpath(all.matches[i]).ok
    THEN [ok |-> FALSE, found |-> 0, matches |-> <<>>]
    ELSE LET kept == dedup_from(all.matches, 1, <<>>)
         IN  [ok |-> TRUE, found |-> Len(kept), matches |-> kept]

\* matches[i] of a SearchPath that was zero-initialised (C index i - 1)
Match(sp, i) == IF i \in 1..Len(sp.matches) THEN sp.matches[i] ELSE NoPath

----------------------------------------------------------------------------
(* Subprocesses (runprogram.h) and parsing (parsing.c, string_utils.c) *)

\* run_program(program, arg, NULL): return code, errno, captured standard
\* output.  The output of --version is a line of words, the output of
\* --bindir a sequence of lines.
run_program(program, arg) ==
    IF ~file_exists(program)
    THEN [returnCode |-> -1, error |-> "ENOENT", stdOut |-> <<>>]
    ELSE IF arg = "--version"
    THEN CASE fs.version[DirOf(program)] = "fail" ->
                  [returnCode |-> 1, error |-> "", stdOut |-> <<>>]
           [] fs.version[DirOf(program)] = "garbage" ->
                  [returnCode |-> 0, error |-> "",
                   stdOut |-> <<NameOf(program), "unknown">>]
           [] OTHER ->
                  [returnCode |-> 0, error |-> "",
                   stdOut |-> IF NameOf(program) = "psql"
                              THEN <<"psql", "(PostgreSQL)",
                                     VersionAt[DirOf(program)]>>
                              ELSE <<"PostgreSQL", VersionAt[DirOf(program)]>>]
    ELSE IF NameOf(program) = "pg_config" /\ realpath(program).ok
    THEN fs.bindir[realpath(program).real]
    ELSE [returnCode |-> 1, error |-> "", stdOut |-> <<>>]

\* parse_version_number(output, string, size, &number): the first word of
\* the output that is a version number
parse_version_number(output) ==
    LET at == {i \in 1..Len(output) : output[i] \in VersionTokens}
    IN  IF at = {} THEN [ok |-> FALSE, version |-> ""]
        ELSE [ok |-> TRUE,
              version |-> output[CHOOSE i \in at : \A j \in at : i <= j]]

\* splitLines(buffer, lines, size): at most size lines are stored
splitLines(buffer, size) ==
    LET n == IF Len(buffer) < size THEN Len(buffer) ELSE size
    IN  [count |-> n, lines |-> SubSeq(buffer, 1, n)]

----------------------------------------------------------------------------
(* Trace records *)

Scan(name) ==
    [kind |-> "search_path", level |-> "", text |-> name,
     path |-> NoPath, arg |-> ""]
Run(program, arg) ==
    [kind |-> "run", level |-> "", text |-> "", path |-> program, arg |-> arg]
Free(program, arg) ==
    [kind |-> "free", level |-> "", text |-> "", path |-> program, arg |-> arg]
Log(level, text, path, detail) ==
    [kind |-> "log", level |-> level, text |-> text,
     path |-> path, arg |-> detail]
\* the captured output of a Program is read by the named function
Read(program, arg, by) ==
    [kind |-> "read", level |-> "", text |-> by, path |-> program, arg |-> arg]
\* initialize_program and execute_subprogram of pg_dump_db
Initialize(program, arg) ==
    [kind |-> "initialize", level |-> "", text |-> "",
     path |-> program, arg |-> arg]
Execute(program, arg) ==
    [kind |-> "execute", level |-> "", text |-> "",
     path |-> program, arg |-> arg]
Setenv(name, value) ==
    [kind |-> "setenv", level |-> "", text |-> name,
     path |-> NoPath, arg |-> value]

----------------------------------------------------------------------------
(* pgcmd.c.  A function is an operator from the caller's PostgresPaths and *)
(* the trace so far to its result, the PostgresPaths and the trace after.  *)

\* psql_version without the check of what parse_version_number returns
psql_version_unparsed(pg, ev) ==
    LET prog == run_program(pg.psql, "--version")
        ev1 == Append(ev, Run(pg.psql, "--version"))
        parsed == parse_version_number(prog.stdOut)
    IN  IF prog.returnCode # 0
        THEN [ok |-> FALSE, pg |-> pg,
              ev |-> ev1 \o <<Log("error", "Failed to run psql --version",
                                  pg.psql, prog.error),
                              Free(pg.psql, "--version")>>]
        ELSE [ok |-> TRUE,
              pg |-> [pg EXCEPT !.pg_version = parsed.version],
              ev |-> ev1 \o <<Read(pg.psql, "--version",
                                   "parse_version_number"),
                              Free(pg.psql, "--version")>>]

\* psql_version without the free_program of the parse failure path
psql_version_leak(pg, ev) ==
    LET prog == run_program(pg.psql, "--version")
        ev1 == Append(ev, Run(pg.psql, "--version"))
        parsed == parse_version_number(prog.stdOut)
    IN  IF prog.returnCode # 0
        THEN [ok |-> FALSE, pg |-> pg,
              ev |-> ev1 \o <<Log("error", "Failed to run psql --version",
                                  pg.psql, prog.error),
                              Free(pg.psql, "--version")>>]
        ELSE IF ~parsed.ok
        THEN [ok |-> FALSE, pg |-> pg,
              ev |-> ev1 \o <<Read(pg.psql, "--version",
                                   "parse_version_number")>>]
        ELSE [ok |-> TRUE,
              pg |-> [pg EXCEPT !.pg_version = parsed.version],
              ev |-> ev1 \o <<Read(pg.psql, "--version",
                                   "parse_version_number"),
                              Free(pg.psql, "--version")>>]

\* psql_version(pgPaths)
psql_version(pg, ev) ==
    LET prog == run_program(pg.psql, "--version")
        ev1 == Append(ev, Run(pg.psql, "--version"))
        parsed == parse_version_number(prog.stdOut)
    IN  IF prog.returnCode # 0
        THEN [ok |-> FALSE, pg |-> pg,
              ev |-> ev1 \o <<Log("error", "Failed to run psql --version",
                                  pg.psql, prog.error),
                              Free(pg.psql, "--version")>>]
        ELSE IF ~parsed.ok
        THEN [ok |-> FALSE, pg |-> pg,
              ev |-> ev1 \o <<Read(pg.psql, "--version",
                                   "parse_version_number"),
                              Free(pg.psql, "--version")>>]
        ELSE [ok |-> TRUE,
              pg |-> [pg EXCEPT !.pg_version = parsed.version],
              ev |-> ev1 \o <<Read(pg.psql, "--version",
                                   "parse_version_number"),
                              Free(pg.psql, "--version")>>]

\* set_postgres_commands keeping a sibling path only when the file exists
set_postgres_commands_checked(pg) ==
    LET pg_dump == path_in_same_directory(pg.psql, "pg_dump")
        pg_restore == path_in_same_directory(pg.psql, "pg_restore")
    IN  [pg EXCEPT !.pg_dump = IF file_exists(pg_dump) THEN pg_dump ELSE @,
                   !.pg_restore = IF file_exists(pg_restore)
                                  THEN pg_restore ELSE @]

\* set_postgres_commands(pgPaths)
set_postgres_commands(pg) ==
    [pg EXCEPT !.pg_dump = path_in_same_directory(pg.psql, "pg_dump"),
               !.pg_restore = path_in_same_directory(pg.psql, "pg_restore")]

\* set_psql_from_config_bindir releasing the Program before the join
set_psql_from_config_bindir_earlyFree(pg, ev, pg_config) ==
    IF ~file_exists(pg_config)
    THEN [ok |-> FALSE, pg |-> pg,
          ev |-> Append(ev, Log("debug", "file not found", pg_config, ""))]
    ELSE
    LET prog == run_program(pg_config, "--bindir")
        ev1 == Append(ev, Run(pg_config, "--bindir"))
        split == splitLines(prog.stdOut, 1)
    IN  IF prog.returnCode # 0
        THEN [ok |-> FALSE, pg |-> pg,
              ev |-> ev1 \o <<Log("error", "Failed to run pg_config --bindir",
                                  pg_config, prog.error),
                              Free(pg_config, "--bindir")>>]
        ELSE IF split.count # 1
        THEN [ok |-> FALSE, pg |-> pg,
              ev |-> ev1 \o <<Read(pg_config, "--bindir", "splitLines"),
                              Log("error", "Unable to parse output",
                                  pg_config, ""),
                              Free(pg_config, "--bindir")>>]
        ELSE
        LET bindir == split.lines[1]
            psql == join_path_components(bindir, "psql")
            ev2 == ev1 \o <<Read(pg_config, "--bindir", "splitLines"),
                            Free(pg_config, "--bindir"),
                            Read(pg_config, "--bindir",
                                 "join_path_components")>>
        IN  IF ~file_exists(psql)
            THEN [ok |-> FALSE, pg |-> pg,
                  ev |-> Append(ev2, Log("error", "Failed to find psql",
                                         pg.psql, ""))]
            ELSE [ok |-> TRUE, pg |-> [pg EXCEPT !.psql = psql], ev |-> ev2]

\* set_psql_from_config_bindir storing psql before it tests that it exists
set_psql_from_config_bindir_storeFirst(pg, ev, pg_config) ==
    IF ~file_exists(pg_config)
    THEN [ok |-> FALSE, pg |-> pg,
          ev |-> Append(ev, Log("debug", "file not found", pg_config, ""))]
    ELSE
    LET prog == run_program(pg_config, "--bindir")
        ev1 == Append(ev, Run(pg_config, "--bindir"))
        split == splitLines(prog.stdOut, 1)
    IN  IF prog.returnCode # 0
        THEN [ok |-> FALSE, pg |-> pg,
              ev |-> ev1 \o <<Log("error", "Failed to run pg_config --bindir",
                                  pg_config, prog.error),
                              Free(pg_config, "--bindir")>>]
        ELSE IF split.count # 1
        THEN [ok |-> FALSE, pg |-> pg,
              ev |-> ev1 \o <<Read(pg_config, "--bindir", "splitLines"),
                              Log("error", "Unable to parse output",
                                  pg_config, ""),
                              Free(pg_config, "--bindir")>>]
        ELSE
        LET bindir == split.lines[1]
            psql == join_path_components(bindir, "psql")
            ev2 == ev1 \o <<Read(pg_config, "--bindir", "splitLines"),
                            Read(pg_config, "--bindir",
                                 "join_path_components"),
                            Free(pg_config, "--bindir")>>
        IN  IF ~file_exists(psql)
            THEN [ok |-> FALSE, pg |-> [pg EXCEPT !.psql = psql],
                  ev |-> Append(ev2, Log("error", "Failed to find psql",
                                         psql, ""))]
            ELSE [ok |-> TRUE, pg |-> [pg EXCEPT !.psql = psql], ev |-> ev2]

\* set_psql_from_config_bindir(pgPaths, pg_config)
set_psql_from_config_bindir(pg, ev, pg_config) ==
    IF ~file_exists(pg_config)
    THEN [ok |-> FALSE, pg |-> pg,
          ev |-> Append(ev, Log("debug", "file not found", pg_config, ""))]
    ELSE
    LET prog == run_program(pg_config, "--bindir")
        ev1 == Append(ev, Run(pg_config, "--bindir"))
        split == splitLines(prog.stdOut, 1)
    IN  IF prog.returnCode # 0
        THEN [ok |-> FALSE, pg |-> pg,
              ev |-> ev1 \o <<Log("error", "Failed to run pg_config --bindir",
                                  pg_config, prog.error),
                              Free(pg_config, "--bindir")>>]
        ELSE IF split.count # 1
        THEN [ok |-> FALSE, pg |-> pg,
              ev |-> ev1 \o <<Read(pg_config, "--bindir", "splitLines"),
                              Log("error", "Unable to parse output",
                                  pg_config, ""),
                              Free(pg_config, "--bindir")>>]
        ELSE
        LET bindir == split.lines[1]
            psql == join_path_components(bindir, "psql")
            ev2 == ev1 \o <<Read(pg_config, "--bindir", "splitLines"),
                            Read(pg_config, "--bindir",
                                 "join_path_components"),
                            Free(pg_config, "--bindir")>>
        IN  IF ~file_exists(psql)
            THEN [ok |-> FALSE, pg |-> pg,
                  ev |-> Append(ev2, Log("error", "Failed to find psql",
                                         pg.psql, ""))]
            ELSE [ok |-> TRUE, pg |-> [pg EXCEPT !.psql = psql], ev |-> ev2]

\* set_psql_from_PG_CONFIG(pgPaths)
set_psql_from_PG_CONFIG(pg, ev) ==
    IF ~env_exists("PG_CONFIG")
    THEN [ok |-> FALSE, pg |-> pg, ev |-> ev]
    ELSE IF ~get_env_copy("PG_CONFIG").ok
    THEN [ok |-> FALSE, pg |-> pg, ev |-> ev]
    ELSE
    LET PG_CONFIG == get_env_copy("PG_CONFIG").value
    IN  IF ~file_exists(PG_CONFIG)
        THEN [ok |-> FALSE, pg |-> pg,
              ev |-> Append(ev, Log("error", "Failed to find a file for PG_CONFIG",
                                    PG_CONFIG, ""))]
        ELSE
        LET dir == set_psql_from_config_bindir(pg, ev, PG_CONFIG)
            ver == psql_version(dir.pg, dir.ev)
        IN  IF ~dir.ok THEN dir
            ELSE IF ~ver.ok
            THEN [ver EXCEPT !.ev = Append(@, Log("fatal",
                      "Failed to get version info", ver.pg.psql, ""))]
            ELSE [ver EXCEPT !.ev = Append(@, Log("debug",
                      "Found psql following PG_CONFIG", ver.pg.psql,
                      ver.pg.pg_version))]

\* the loop over the candidates stopping at the first failed probe
RECURSIVE probe_candidates_break(_, _, _)
probe_candidates_break(pg_configs, i, ev) ==
    IF i > pg_configs.found THEN ev
    ELSE
    LET currentPgPaths == [psql |-> Match(pg_configs, i), pg_dump |-> NoPath,
                           pg_restore |-> NoPath, pg_version |-> ""]
        ver == psql_version(currentPgPaths, ev)
    IN  IF ~ver.ok
        THEN Append(ver.ev, Log("warn", "Failed to get version info",
                                currentPgPaths.psql, ""))
        ELSE probe_candidates_break(pg_configs, i + 1,
                 Append(ver.ev, Log("info", "Found", ver.pg.psql,
                                    ver.pg.pg_version)))

\* lines 296-324: the loop over the candidates of the ambiguous case, from
\* candidate i on; each one is probed through a local PostgresPaths
RECURSIVE probe_candidates(_, _, _)
probe_candidates(pg_configs, i, ev) ==
    IF i > pg_configs.found THEN ev
    ELSE
    LET currentPgPaths == [psql |-> Match(pg_configs, i), pg_dump |-> NoPath,
                           pg_restore |-> NoPath, pg_version |-> ""]
        ver == psql_version(currentPgPaths, ev)
    IN  IF ~ver.ok
        THEN probe_candidates(pg_configs, i + 1,
                 Append(ver.ev, Log("warn", "Failed to get version info",
                                    currentPgPaths.psql, "")))
        ELSE probe_candidates(pg_configs, i + 1,
                 Append(ver.ev, Log("info", "Found", ver.pg.psql,
                                    ver.pg.pg_version)))

\* case 0 probing whatever psql the caller's PostgresPaths holds
pg_config_none_probing(pg, ev) ==
    LET ver == psql_version(pg, ev)
    IN  [ok |-> FALSE, pg |-> ver.pg,
         ev |-> Append(ver.ev, Log("warn",
                    "Failed to find either psql or pg_config in PATH",
                    NoPath, ""))]

\* lines 262-266, case 0: no pg_config on the PATH
pg_config_none(pg, ev) ==
    [ok |-> FALSE, pg |-> pg,
     ev |-> Append(ev, Log("warn",
                "Failed to find either psql or pg_config in PATH",
                NoPath, ""))]

\* case 1 without the return that follows a failed probe
pg_config_single_ignoringProbe(pg, ev, pg_config) ==
    LET dir == set_psql_from_config_bindir(pg, ev, pg_config)
        ver == psql_version(dir.pg, dir.ev)
    IN  IF ~dir.ok THEN dir
        ELSE [ok |-> TRUE, pg |-> ver.pg,
              ev |-> Append(ver.ev, Log("debug",
                         "Found psql from pg_config found in PATH",
                         ver.pg.psql, ver.pg.pg_version))]

\* lines 268-290, case 1: a single pg_config on the PATH
pg_config_single(pg, ev, pg_config) ==
    LET dir == set_psql_from_config_bindir(pg, ev, pg_config)
        ver == psql_version(dir.pg, dir.ev)
    IN  IF ~dir.ok THEN dir
        ELSE IF ~ver.ok
        THEN [ver EXCEPT !.ev = Append(@, Log("fatal",
                  "Failed to get version info", ver.pg.psql, ""))]
        ELSE [ver EXCEPT !.ev = Append(@, Log("debug",
                  "Found psql from pg_config found in PATH",
                  ver.pg.psql, ver.pg.pg_version))]

\* lines 292-329, default: more than one pg_config on the PATH
pg_config_ambiguous(pg, ev, pg_configs) ==
    LET ev1 == Append(ev, Log("info",
                   "Found more than one pg_config entry in current PATH",
                   NoPath, ""))
        ev2 == probe_candidates(pg_configs, 1, ev1)
    IN  [ok |-> FALSE, pg |-> pg,
         ev |-> Append(ev2, Log("info", "HINT: export PG_CONFIG", NoPath, ""))]

\* the switch taken on the matches found before the deduplication
pg_config_switch_all(pg, ev, all_pg_configs, pg_configs) ==
    IF all_pg_configs.found = 0 THEN pg_config_none(pg, ev)
    ELSE IF all_pg_configs.found = 1
    THEN pg_config_single(pg, ev, Match(all_pg_configs, 1))
    ELSE pg_config_ambiguous(pg, ev, all_pg_configs)

\* line 260: switch (pg_configs.found)
pg_config_switch(pg, ev, all_pg_configs, pg_configs) ==
    IF pg_configs.found = 0 THEN pg_config_none(pg, ev)
    ELSE IF pg_configs.found = 1
    THEN pg_config_single(pg, ev, Match(pg_configs, 1))
    ELSE pg_config_ambiguous(pg, ev, pg_configs)

\* set_psql_from_pg_config without the test of the deduplication's result
set_psql_from_pg_config_unchecked(pg, ev) ==
    LET all_pg_configs == search_path("pg_config")
        ev1 == Append(ev, Scan("pg_config"))
        pg_configs == search_path_deduplicate_symlinks(all_pg_configs)
    IN  IF ~all_pg_configs.ok
        THEN [ok |-> FALSE, pg |-> pg, ev |-> ev1]
        ELSE pg_config_switch(pg, ev1, all_pg_configs, pg_configs)

\* set_psql_from_pg_config(pgPaths)
set_psql_from_pg_config(pg, ev) ==
    LET all_pg_configs == search_path("pg_config")
        ev1 == Append(ev, Scan("pg_config"))
        pg_configs == search_path_deduplicate_symlinks(all_pg_configs)
    IN  IF ~all_pg_configs.ok
        THEN [ok |-> FALSE, pg |-> pg, ev |-> ev1]
        ELSE IF ~pg_configs.ok
        THEN [ok |-> FALSE, pg |-> pg,
              ev |-> Append(ev1, Log("error", "Failed to resolve symlinks",
                                     NoPath, ""))]
        ELSE pg_config_switch(pg, ev1, all_pg_configs, pg_configs)

----------------------------------------------------------------------------
(* find_pg_commands(pgPaths), one operator per strategy.  Each gives the   *)
(* position reached (a return, an exit, or the next strategy), whether the *)
(* strategy succeeded, the exit code if any, PostgresPaths and the trace.  *)

\* find_pg_commands without the return that follows a successful hint
find_pg_commands_PG_CONFIG_noReturn(pg, ev) ==
    LET r == set_psql_from_PG_CONFIG(pg, ev)
    IN  [pc |-> "PATH_psql", ok |-> r.ok, exit |-> NoExit,
         pg |-> IF r.ok THEN set_postgres_commands(r.pg) ELSE r.pg,
         ev |-> r.ev]

\* lines 76-81: first, use PG_CONFIG when it exists in the environment
find_pg_commands_PG_CONFIG(pg, ev) ==
    LET r == set_psql_from_PG_CONFIG(pg, ev)
    IN  IF r.ok
        THEN [pc |-> "returned", ok |-> TRUE, exit |-> NoExit,
              pg |-> set_postgres_commands(r.pg), ev |-> r.ev]
        ELSE [pc |-> "PATH_psql", ok |-> FALSE, exit |-> NoExit,
              pg |-> r.pg, ev |-> r.ev]

\* find_pg_commands without the call of set_postgres_commands that follows
\* the probe of the psql found on the PATH
find_pg_commands_PATH_psql_noSiblings(pg, ev) ==
    LET first == search_path_first("psql")
        ev1 == Append(ev, Scan("psql"))
        pg1 == [pg EXCEPT !.psql = first.result]
        ver == psql_version(pg1, ev1)
    IN  IF first.ok
        THEN IF ~ver.ok
             THEN [pc |-> "exited", ok |-> FALSE, exit |-> EXIT_CODE_PGCTL,
                   pg |-> ver.pg, ev |-> ver.ev]
             ELSE [pc |-> "returned", ok |-> TRUE, exit |-> NoExit,
                   pg |-> ver.pg, ev |-> ver.ev]
        ELSE [pc |-> "PATH_pg_config", ok |-> FALSE, exit |-> NoExit,
              pg |-> pg,
              ev |-> Append(ev1, Log("warn", "Failed to find psql command",
                                     NoPath, ""))]

\* find_pg_commands going on to the next strategy when the probe of the
\* psql found on the PATH fails
find_pg_commands_PATH_psql_tryNext(pg, ev) ==
    LET first == search_path_first("psql")
        ev1 == Append(ev, Scan("psql"))
        pg1 == [pg EXCEPT !.psql = first.result]
        ver == psql_version(pg1, ev1)
    IN  IF first.ok
        THEN IF ~ver.ok
             THEN [pc |-> "PATH_pg_config", ok |-> FALSE, exit |-> NoExit,
                   pg |-> ver.pg, ev |-> ver.ev]
             ELSE [pc |-> "returned", ok |-> TRUE, exit |-> NoExit,
                   pg |-> set_postgres_commands(ver.pg), ev |-> ver.ev]
        ELSE [pc |-> "PATH_pg_config", ok |-> FALSE, exit |-> NoExit,
              pg |-> pg,
              ev |-> Append(ev1, Log("warn", "Failed to find psql command",
                                     NoPath, ""))]

\* lines 83-94: then, use PATH and fetch the first psql entry there
find_pg_commands_PATH_psql(pg, ev) ==
    LET first == search_path_first("psql")
        ev1 == Append(ev, Scan("psql"))
        pg1 == [pg EXCEPT !.psql = first.result]
        ver == psql_version(pg1, ev1)
    IN  IF first.ok
        THEN IF ~ver.ok
             THEN [pc |-> "exited", ok |-> FALSE, exit |-> EXIT_CODE_PGCTL,
                   pg |-> ver.pg, ev |-> ver.ev]
             ELSE [pc |-> "returned", ok |-> TRUE, exit |-> NoExit,
                   pg |-> set_postgres_commands(ver.pg), ev |-> ver.ev]
        ELSE [pc |-> "PATH_pg_config", ok |-> FALSE, exit |-> NoExit,
              pg |-> pg,
              ev |-> Append(ev1, Log("warn", "Failed to find psql command",
                                     NoPath, ""))]

\* find_pg_commands without the final exit: it returns when the last
\* strategy failed
find_pg_commands_PATH_pg_config_noExit(pg, ev) ==
    LET r == set_psql_from_pg_config(pg, ev)
    IN  [pc |-> "returned", ok |-> r.ok, exit |-> NoExit,
         pg |-> IF r.ok THEN set_postgres_commands(r.pg) ELSE r.pg,
         ev |-> r.ev]

\* lines 96-104: then, use PATH and fetch pg_config --bindir from there
find_pg_commands_PATH_pg_config(pg, ev) ==
    LET r == set_psql_from_pg_config(pg, ev)
    IN  IF r.ok
        THEN [pc |-> "returned", ok |-> TRUE, exit |-> NoExit,
              pg |-> set_postgres_commands(r.pg), ev |-> r.ev]
        ELSE [pc |-> "exited", ok |-> FALSE, exit |-> EXIT_CODE_PGCTL,
              pg |-> r.pg, ev |-> r.ev]

----------------------------------------------------------------------------
(* pg_dump_db and log_program_output *)

\* the NULL that ends an argument vector, and an output buffer never filled
ArgsEnd == "<NULL>"
NoOutput == [present |-> FALSE, lines |-> <<>>]
Output(lines) == [present |-> TRUE, lines |-> lines]

POSTGRES_CONNECT_TIMEOUT == "POSTGRES_CONNECT_TIMEOUT"

\* a path as the string the C code holds
PathString(path) == IF path = NoPath THEN "" ELSE path[1] \o "/" \o path[2]

\* the arguments of a vector, up to its NULL, joined by spaces
RECURSIVE RenderFrom(_, _)
RenderFrom(args, i) ==
    IF i > Len(args) \/ args[i] = ArgsEnd THEN ""
    ELSE IF i = 1 THEN args[i] \o RenderFrom(args, i + 1)
    ELSE " " \o args[i] \o RenderFrom(args, i + 1)

\* snprintf_program_command_line(&program, buffer, size): the length of the
\* whole command line, of which the buffer holds at most size - 1 characters
snprintf_program_command_line(args, size) ==
    LET full == RenderFrom(args, 1)
    IN  [written |-> Len(full),
         buffer |-> IF Len(full) < size THEN full
                    ELSE SubSeq(full, 1, size - 1)]

\* execute_subprogram(&program): what the subprocess answers, or a launch
\* failure when the program file does not exist
execute_subprogram(path, args, answer) ==
    IF ~file_exists(path)
    THEN [args |-> args, returnCode |-> -1, error |-> "ENOENT",
          stdOut |-> NoOutput, stdErr |-> NoOutput]
    ELSE [args |-> args, returnCode |-> answer.returnCode, error |-> "",
          stdOut |-> answer.stdOut, stdErr |-> answer.stdErr]

\* one log record per line of a buffer
LogLines(level, lines, path) ==
    [i \in 1..Len(lines) |-> Log(level, lines[i], path, "output")]

\* log_program_output replaying the standard error first
log_program_output_errFirst(prog, path, outLogLevel, errorLogLevel) ==
    (IF prog.stdErr.present
     THEN <<Read(path, "stdErr", "log_program_output")>> \o
          LogLines(errorLogLevel,
                   splitLines(prog.stdErr.lines, BUFSIZE).lines, path)
     ELSE <<>>)
    \o
    (IF prog.stdOut.present
     THEN <<Read(path, "stdOut", "log_program_output")>> \o
          LogLines(outLogLevel,
                   splitLines(prog.stdOut.lines, BUFSIZE).lines, path)
     ELSE <<>>)

\* log_program_output(prog, outLogLevel, errorLogLevel): the records added
log_program_output(prog, path, outLogLevel, errorLogLevel) ==
    (IF prog.stdOut.present
     THEN <<Read(path, "stdOut", "log_program_output")>> \o
          LogLines(outLogLevel,
                   splitLines(prog.stdOut.lines, BUFSIZE).lines, path)
     ELSE <<>>)
    \o
    (IF prog.stdErr.present
     THEN <<Read(path, "stdErr", "log_program_output")>> \o
          LogLines(errorLogLevel,
                   splitLines(prog.stdErr.lines, BUFSIZE).lines, path)
     ELSE <<>>)

\* the argument vector with the file given before the section
pg_dump_args_fileFirst(pg, pguri, section, filename) ==
    <<PathString(pg.pg_dump), "-Fc", "-d", pguri, "--file", filename,
      "--section", section, ArgsEnd>>

\* lines 352-361: the argument vector of pg_dump
pg_dump_args(pg, pguri, section, filename) ==
    <<PathString(pg.pg_dump), "-Fc", "-d", pguri, "--section", section,
      "--file", filename, ArgsEnd>>

\* the line logged, with the ellipsis only past BUFSIZE characters
command_log_line_past(args) ==
    LET command == snprintf_program_command_line(args, BUFSIZE)
    IN  IF command.written > BUFSIZE
        THEN command.buffer \o "..."
        ELSE command.buffer

\* lines 371-382: the line logged for a command line
command_log_line(args) ==
    LET command == snprintf_program_command_line(args, BUFSIZE)
    IN  IF command.written >= BUFSIZE
        THEN command.buffer \o "..."
        ELSE command.buffer

\* pg_dump_db without the replay of the captured output on failure
pg_dump_db_noReplay(pg, ev, pguri, section, filename, answer) ==
    LET args == pg_dump_args(pg, pguri, section, filename)
        ev1 == ev \o <<Setenv("PGCONNECT_TIMEOUT", POSTGRES_CONNECT_TIMEOUT),
                       Initialize(pg.pg_dump, "-Fc"),
                       Log("info", command_log_line(args), pg.pg_dump, "command"),
                       Execute(pg.pg_dump, "-Fc")>>
        program == execute_subprogram(pg.pg_dump, args, answer)
    IN  IF program.returnCode # 0
        THEN [ok |-> FALSE, program |-> program,
              ev |-> ev1 \o <<Log("error", "Failed to run pg_dump", pg.pg_dump, ""),
                              Free(pg.pg_dump, "-Fc")>>]
        ELSE [ok |-> TRUE, program |-> program,
              ev |-> Append(ev1, Free(pg.pg_dump, "-Fc"))]

\* pg_dump_db(pgPaths, pguri, section, filename); answer is what pg_dump
\* does when it is run
pg_dump_db(pg, ev, pguri, section, filename, answer) ==
    LET args == pg_dump_args(pg, pguri, section, filename)
        ev1 == ev \o <<Setenv("PGCONNECT_TIMEOUT", POSTGRES_CONNECT_TIMEOUT),
                       Initialize(pg.pg_dump, "-Fc"),
                       Log("info", command_log_line(args), pg.pg_dump,
                           "command"),
                       Execute(pg.pg_dump, "-Fc")>>
        program == execute_subprogram(pg.pg_dump, args, answer)
    IN  IF program.returnCode # 0
        THEN [ok |-> FALSE, program |-> program,
              ev |-> ev1
                     \o <<Log("error", "Failed to run pg_dump", pg.pg_dump,
                              "")>>
                     \o log_program_output(program, pg.pg_dump,
                                           "error", "error")
                     \o <<Free(pg.pg_dump, "-Fc")>>]
        ELSE [ok |-> TRUE, program |-> program,
              ev |-> Append(ev1, Free(pg.pg_dump, "-Fc"))]

----------------------------------------------------------------------------
(* The state machine *)

\* no call of pg_dump_db was made
NoDump ==
    [called |-> FALSE, ok |-> FALSE, pguri |-> "", section |-> "",
     filename |-> "",
     program |-> [args |-> <<>>, returnCode |-> 0, error |-> "",
                  stdOut |-> NoOutput, stdErr |-> NoOutput]]

\* the value of PG_CONFIG: unset, too long for the buffer, or a path
HintValues ==
    { [set |-> FALSE, fits |-> TRUE, value |-> NoPath],
      [set |-> TRUE, fits |-> FALSE, value |-> NoPath],
      [set |-> TRUE, fits |-> TRUE, value |-> MkPath(UsrBin, "pg_config")] }

\* the value of PATH: unset, or up to MaxPathLen directories
PathValues ==
    { [set |-> FALSE, fits |-> TRUE, value |-> <<>>] } \cup
    { [set |-> TRUE, fits |-> TRUE, value |-> p] :
          p \in SeqsUpTo(PathDirs, MaxPathLen) }

\* what pg_config --bindir answers: a failure, no line, one line, two lines
BindirAnswers ==
    { [returnCode |-> 1, error |-> "", stdOut |-> <<>>],
      [returnCode |-> 0, error |-> "", stdOut |-> <<>>],
      [returnCode |-> 0, error |-> "", stdOut |-> <<PgBin>>],
      [returnCode |-> 0, error |-> "", stdOut |-> <<PgBin, UsrBin>>] }

VersionAnswers == {"fail", "garbage", "good"}

FileSystems ==
    [ pg_config : [PathDirs -> RealFiles \cup {Absent, Unresolvable}],
      psql      : [Dirs -> BOOLEAN],
      siblings  : {{"pg_dump", "pg_restore"}, {"pg_dump"}},
      bindir    : [RealFiles -> BindirAnswers],
      version   : [Dirs -> VersionAnswers] ]

\* the directories the program can look into, given the environment
Visible(e) ==
    {PgBin} \cup {e.PATH.value[i] : i \in 1..Len(e.PATH.value)}
            \cup (IF e.PG_CONFIG.set /\ e.PG_CONFIG.fits
                  THEN {DirOf(e.PG_CONFIG.value)} ELSE {})

\* A file system is listed once per environment: what the program cannot
\* observe (a directory it never looks into, the answers of a program that
\* does not exist) is fixed, and the real files are numbered in PATH order.
Canonical(e, f) ==
    /\ \A d \in PathDirs \ Visible(e) :
           f.pg_config[d] = Absent /\ ~f.psql[d]
    /\ \A d \in Dirs :
           (~f.psql[d] /\ (d \in PathDirs => f.pg_config[d] = Absent))
               => f.version[d] = "good"
    /\ \A r \in RealFiles :
           (\A d \in PathDirs : f.pg_config[d] # r)
               => f.bindir[r] = [returnCode |-> 0, error |-> "",
                                 stdOut |-> <<PgBin>>]
    /\ (\E d \in PathDirs : f.pg_config[d] = "r2")
           => (\E d \in PathDirs : f.pg_config[d] = "r1")

ZeroPaths ==
    [psql |-> NoPath, pg_dump |-> NoPath, pg_restore |-> NoPath,
     pg_version |-> ""]

Init ==
    /\ env \in [PG_CONFIG : HintValues, PATH : PathValues]
    /\ fs \in {f \in FileSystems : Canonical(env, f)}
    /\ pgPaths = ZeroPaths
    /\ pc = "PG_CONFIG"
    /\ exitCode = NoExit
    /\ strategies = <<>>
    /\ events = <<>>
    /\ dump = NoDump

Step(name, r) ==
    /\ pc' = r.pc
    /\ pgPaths' = r.pg
    /\ events' = r.ev
    /\ exitCode' = r.exit
    /\ strategies' = Append(strategies, [name |-> name, ok |-> r.ok])
    /\ UNCHANGED <<env, fs, dump>>

TryPG_CONFIG ==
    /\ pc = "PG_CONFIG"
    /\ Step("PG_CONFIG", find_pg_commands_PG_CONFIG(pgPaths, events))

TryPATH_psql ==
    /\ pc = "PATH_psql"
    /\ Step("PATH_psql", find_pg_commands_PATH_psql(pgPaths, events))

TryPATH_pg_config ==
    /\ pc = "PATH_pg_config"
    /\ Step("PATH_pg_config", find_pg_commands_PATH_pg_config(pgPaths, events))

Next == TryPG_CONFIG \/ TryPATH_psql \/ TryPATH_pg_config

Spec == Init /\ [][Next]_vars

----------------------------------------------------------------------------
(* find_pg_commands followed by a call of pg_dump_db *)

\* the connection strings, sections and file names pg_dump_db is called
\* with: command lines of BUFSIZE - 1, BUFSIZE and BUFSIZE + 1 characters
\* are among those they give
DumpUris == {"db", "postgresql://user@host:5432/database"}
DumpSections == {"pre-data"}
DumpFiles == {"/tmp/a.d", "/tmp/ab.d", "/tmp/abc.d"}

\* n lines of output
Lines(prefix, n) == [i \in 1..n |-> prefix \o ToString(i)]

\* what pg_dump captures: nothing, a few lines, more lines than BUFSIZE
DumpAnswers ==
    { [returnCode |-> 0, stdOut |-> NoOutput, stdErr |-> NoOutput],
      [returnCode |-> 0, stdOut |-> Output(Lines("out", 2)),
                         stdErr |-> Output(Lines("err", 1))],
      [returnCode |-> 1, stdOut |-> NoOutput,
                         stdErr |-> Output(Lines("err", 1))],
      [returnCode |-> 1, stdOut |-> Output(Lines("out", 2)),
                         stdErr |-> NoOutput],
      [returnCode |-> 1, stdOut |-> Output(Lines("out", 2)),
                         stdErr |-> Output(Lines("err", 3))],
      [returnCode |-> 1, stdOut |-> Output(Lines("out", BUFSIZE + 2)),
                         stdErr |-> Output(Lines("err", BUFSIZE + 3))] }

\* the environments of this specification: a PATH of at most one entry, and
\* directories that may hold no pg_dump
DumpFileSystems ==
    [ pg_config : [PathDirs -> {"r1", Absent}],
      psql      : [Dirs -> BOOLEAN],
      siblings  : {{"pg_dump"}, {}},
      bindir    : [RealFiles -> BindirAnswers],
      version   : [Dirs -> VersionAnswers] ]

DumpPathValues ==
    { [set |-> TRUE, fits |-> TRUE, value |-> p] :
          p \in {<<>>, <<UsrBin>>} }

InitDump ==
    /\ env \in [PG_CONFIG : HintValues, PATH : DumpPathValues]
    /\ fs \in {f \in DumpFileSystems : Canonical(env, f)}
    /\ pgPaths = ZeroPaths
    /\ pc = "PG_CONFIG"
    /\ exitCode = NoExit
    /\ strategies = <<>>
    /\ events = <<>>
    /\ dump = NoDump

\* the caller runs pg_dump_db with the PostgresPaths find_pg_commands
\* returned
PgDumpDb ==
    /\ pc = "returned"
    /\ ~dump.called
    /\ \E pguri \in DumpUris, section \in DumpSections,
          filename \in DumpFiles, answer \in DumpAnswers :
           LET r == pg_dump_db(pgPaths, events, pguri, section, filename,
                               answer)
           IN  /\ events' = r.ev
               /\ dump' = [called |-> TRUE, ok |-> r.ok, pguri |-> pguri,
                           section |-> section, filename |-> filename,
                           program |-> r.program]
    /\ UNCHANGED <<env, fs, pgPaths, pc, exitCode, strategies>>

NextDump == Next \/ PgDumpDb

SpecDump == InitDump /\ [][NextDump]_vars

----------------------------------------------------------------------------
(* The functions that write into PostgresPaths, each called once on a      *)
(* caller's PostgresPaths that may already be filled.  strategies records  *)
(* the function called and what it returned.                               *)

\* the caller's PostgresPaths: empty, a psql that exists or not with a
\* version, a psql that does not exist without one
PathsInputs ==
    { ZeroPaths,
      [psql |-> MkPath(PgBin, "psql"), pg_version |-> "9.6",
       pg_dump |-> NoPath, pg_restore |-> NoPath],
      [psql |-> MkPath(LocalBin, "psql"), pg_version |-> "",
       pg_dump |-> NoPath, pg_restore |-> NoPath] }

\* the pg_config files set_psql_from_config_bindir is called with
Candidates == {MkPath(d, "pg_config") : d \in PathDirs}

PathsEnvironments ==
    [ PG_CONFIG : {[set |-> FALSE, fits |-> TRUE, value |-> NoPath]},
      PATH : { [set |-> FALSE, fits |-> TRUE, value |-> <<>>],
               [set |-> TRUE, fits |-> TRUE, value |-> <<UsrBin, LocalBin>>] } ]

PathsFileSystems ==
    {f \in FileSystems :
        /\ f.siblings = {"pg_dump"}
        /\ ~f.psql[UsrBin]
        /\ ~f.psql[LocalBin]}

InitPaths ==
    /\ env \in PathsEnvironments
    /\ fs \in {f \in PathsFileSystems : Canonical(env, f)}
    /\ pgPaths \in PathsInputs
    /\ pc = "call"
    /\ exitCode = NoExit
    /\ strategies = <<>>
    /\ events = <<>>
    /\ dump = NoDump

Called(name, r) ==
    /\ pc' = "called"
    /\ pgPaths' = r.pg
    /\ events' = r.ev
    /\ strategies' = <<[name |-> name, ok |-> r.ok]>>
    /\ UNCHANGED <<env, fs, exitCode, dump>>

CallBindir ==
    /\ pc = "call"
    /\ \E pg_config \in Candidates :
           Called("set_psql_from_config_bindir",
                  set_psql_from_config_bindir(pgPaths, events, pg_config))

CallVersion ==
    /\ pc = "call"
    /\ Called("psql_version", psql_version(pgPaths, events))

CallPgConfig ==
    /\ pc = "call"
    /\ Called("set_psql_from_pg_config",
              set_psql_from_pg_config(pgPaths, events))

NextPaths == CallBindir \/ CallVersion \/ CallPgConfig

SpecPaths == InitPaths /\ [][NextPaths]_vars

----------------------------------------------------------------------------
(* Reading the state and the trace *)

StrategyOrder == <<"PG_CONFIG", "PATH_psql", "PATH_pg_config">>

\* find_pg_commands has run at least its first n strategies
Tried(n) == Len(strategies) >= n

Scans(name) == {i \in 1..Len(events) : events[i] = Scan(name)}

IsRun(e) == e.kind = "run"
RunsOf(ev) == SelectSeq(ev, IsRun)

\* the trace of the indirect strategy: what follows the scan for pg_config
IndirectEvents ==
    LET k == CHOOSE i \in Scans("pg_config") : TRUE
    IN  SubSeq(events, k + 1, Len(events))

\* PG_CONFIG is set and names a file that exists
HintNamesExistingFile ==
    /\ env.PG_CONFIG.set
    /\ env.PG_CONFIG.fits
    /\ file_exists(env.PG_CONFIG.value)

\* what the file system answers to "program --version"
ProbeOk(program) ==
    LET prog == run_program(program, "--version")
    IN  prog.returnCode = 0 /\ parse_version_number(prog.stdOut).ok
ProbedVersion(program) ==
    parse_version_number(run_program(program, "--version").stdOut).version

Finished == pc \in {"returned", "exited"}

----------------------------------------------------------------------------
(* C1 *)

\* C1: when PG_CONFIG names an existing file and the explicit-hint strategy
\* fails, the whole resolution fails: the process has exited, no PATH scan
\* was made and no later strategy was run.
C1_HintFailureIsFatal ==
    (HintNamesExistingFile /\ Tried(1) /\ ~strategies[1].ok)
        => /\ pc = "exited"
           /\ Len(strategies) = 1
           /\ Scans("psql") = {} /\ Scans("pg_config") = {}

----------------------------------------------------------------------------
(* C2 *)

\* C2: the strategies run in the order PG_CONFIG, PATH psql, PATH pg_config;
\* only the last strategy run can have succeeded and then find_pg_commands
\* has returned; each PATH scan belongs to the strategy that was reached
\* (none after a success), the scan for psql precedes the scan for
\* pg_config and follows every subprocess of the hint, and the indirect
\* strategy runs only when psql was not found on the PATH.
C2_StrategyOrder ==
    /\ Len(strategies) <= 3
    /\ \A i \in 1..Len(strategies) : strategies[i].name = StrategyOrder[i]
    /\ \A i \in 1..Len(strategies) :
           strategies[i].ok => (i = Len(strategies) /\ pc = "returned")
    /\ Cardinality(Scans("psql")) = (IF Tried(2) THEN 1 ELSE 0)
    /\ Cardinality(Scans("pg_config")) = (IF Tried(3) THEN 1 ELSE 0)
    /\ \A i \in Scans("psql") : \A j \in Scans("pg_config") : i < j
    /\ \A i \in Scans("psql") : \A k \in 1..Len(events) :
           (IsRun(events[k]) /\ events[k].arg = "--bindir"
                /\ events[k].path = env.PG_CONFIG.value
                /\ Scans("pg_config") = {}) => k < i
    /\ (Tried(1) /\ strategies[1].ok) => \A k \in 1..Len(events) :
           events[k].kind # "search_path"
    /\ (Tried(2) /\ strategies[2].ok) => \A k \in 1..Len(events) :
           (k > CHOOSE i \in Scans("psql") : TRUE)
               => (events[k].kind # "search_path"
                     /\ events[k].arg # "--bindir")
    /\ Tried(3) => search_path("psql").found = 0

\* the hint succeeds although the PATH holds both a psql and a pg_config
C2_Witness ==
    /\ pc = "returned"
    /\ Len(strategies) = 1
    /\ search_path("psql").found > 0
    /\ search_path("pg_config").found > 0

----------------------------------------------------------------------------
(* C3 *)

\* C3: when psql is found on the PATH, the first match is the one probed and
\* stored; if its version probe fails the process exits with
\* EXIT_CODE_PGCTL and the indirect strategy is never attempted.
C3_DirectProbeFailureIsFatal ==
    (Tried(2) /\ search_path("psql").found >= 1) =>
        LET first == search_path("psql").matches[1]
            k == CHOOSE i \in Scans("psql") : TRUE
        IN  /\ events[k + 1] = Run(first, "--version")
            /\ pgPaths.psql = first
            /\ ~ProbeOk(first) =>
                   /\ pc = "exited"
                   /\ exitCode = EXIT_CODE_PGCTL
                   /\ Len(strategies) = 2
                   /\ Scans("pg_config") = {}

\* two psql on the PATH, the first one fails its probe, and a single valid
\* pg_config on the PATH would have led to a working psql
C3_Witness ==
    /\ pc = "exited"
    /\ Len(strategies) = 2
    /\ search_path("psql").found = 2
    /\ search_path("psql").matches[1] # search_path("psql").matches[2]
    /\ ProbeOk(search_path("psql").matches[2])
    /\ search_path_deduplicate_symlinks(search_path("pg_config")).found = 1
    /\ ProbeOk(MkPath(PgBin, "psql"))

----------------------------------------------------------------------------
(* C4 *)

\* C4: find_pg_commands has returned exactly when some strategy succeeded,
\* and then psql and its version are set and the sibling paths derived; it
\* otherwise goes on to the next strategy or exits, and every exit uses
\* EXIT_CODE_PGCTL.
C4_ReturnOrFixedExit ==
    /\ (pc = "returned") <=> (\E i \in 1..Len(strategies) : strategies[i].ok)
    /\ pc = "returned" =>
           /\ pgPaths.psql # NoPath
           /\ pgPaths.pg_version # ""
           /\ pgPaths.pg_dump = MkPath(DirOf(pgPaths.psql), "pg_dump")
           /\ pgPaths.pg_restore = MkPath(DirOf(pgPaths.psql), "pg_restore")
    /\ (pc = "exited") <=> (exitCode # NoExit)
    /\ exitCode \in {NoExit, EXIT_CODE_PGCTL}
    /\ (Tried(3) /\ ~strategies[3].ok) => pc = "exited"
    /\ ~Finished => (Len(strategies) < 3 /\ pc = StrategyOrder[Len(strategies) + 1])

\* every strategy was run and failed, the hint among them
C4_Witness ==
    /\ pc = "exited"
    /\ Len(strategies) = 3
    /\ HintNamesExistingFile
    /\ search_path("pg_config").found > 0

----------------------------------------------------------------------------
(* C5 *)

\* C5: when no pg_config is found on the PATH the indirect strategy fails
\* and launches no subprocess: neither a version probe nor
\* pg_config --bindir.
C5_NoPgConfigNoProbe ==
    (Tried(3) /\ search_path("pg_config").found = 0) =>
        /\ ~strategies[3].ok
        /\ pc = "exited"
        /\ RunsOf(IndirectEvents) = <<>>

\* no pg_config on a PATH that is not empty, after the hint set psql
C5_Witness ==
    /\ Tried(3)
    /\ search_path("pg_config").found = 0
    /\ env.PATH.set /\ env.PATH.value # <<>>
    /\ pgPaths.psql # NoPath

----------------------------------------------------------------------------
(* The indirect strategy seen from the environment *)

AllPgConfigs == search_path("pg_config")
PgConfigs == search_path_deduplicate_symlinks(AllPgConfigs)

\* pg_config reports a directory: it runs, and its output has a first line
ReportsDir(pg_config) ==
    LET prog == run_program(pg_config, "--bindir")
    IN  prog.returnCode = 0 /\ Len(prog.stdOut) >= 1
ReportedPsql(pg_config) ==
    MkPath(run_program(pg_config, "--bindir").stdOut[1], "psql")

\* the directory that pg_config reports contains psql
DirContainsPsql(pg_config) ==
    ReportsDir(pg_config) /\ file_exists(ReportedPsql(pg_config))

\* the indirect strategy reached the switch with exactly one candidate
SingleCandidate == Tried(3) /\ PgConfigs.ok /\ PgConfigs.found = 1

----------------------------------------------------------------------------
(* C6 *)

\* C6 as stated: with exactly one pg_config after deduplication the indirect
\* strategy succeeds if and only if the directory that pg_config reports
\* contains psql, and then the stored version is the one psql reports.
C6_SucceedsIffPsqlInBindir ==
    SingleCandidate =>
        LET c == PgConfigs.matches[1]
        IN  /\ strategies[3].ok <=> DirContainsPsql(c)
            /\ strategies[3].ok =>
                   pgPaths.pg_version = ProbedVersion(ReportedPsql(c))

\* C6 amended: with exactly one pg_config after deduplication the indirect
\* strategy succeeds if and only if the directory that pg_config reports
\* contains psql and the version probe of that psql succeeds; on success the
\* stored psql is that one and the stored version is the one parsed from its
\* --version output.
C6_SucceedsIffPsqlInBindirAndProbed ==
    SingleCandidate =>
        LET c == PgConfigs.matches[1]
        IN  /\ strategies[3].ok <=>
                   (DirContainsPsql(c) /\ ProbeOk(ReportedPsql(c)))
            /\ strategies[3].ok =>
                   /\ pgPaths.psql = ReportedPsql(c)
                   /\ pgPaths.pg_version = ProbedVersion(ReportedPsql(c))
                   /\ pgPaths.pg_version = VersionAt[DirOf(pgPaths.psql)]

\* a single pg_config reports a directory holding a psql whose probe fails
C6_Witness ==
    /\ SingleCandidate
    /\ DirContainsPsql(PgConfigs.matches[1])
    /\ ~ProbeOk(ReportedPsql(PgConfigs.matches[1]))

----------------------------------------------------------------------------
(* C7 *)

\* the candidates of the ambiguous case
Ambiguous == Tried(3) /\ PgConfigs.ok /\ PgConfigs.found >= 2

IsFound(e) == e.kind = "log" /\ e.text = "Found"

\* C7: with two or more distinct pg_config the indirect strategy fails
\* whatever the probes answer; the subprocesses it launches are the version
\* probes of the candidates, one each, in search-path order; the log holds
\* one Found record per candidate whose probe succeeded, in that order, and
\* none for the others.
C7_AmbiguousEnumeratesAll ==
    Ambiguous =>
        LET m == PgConfigs.matches
        IN  /\ ~strategies[3].ok
            /\ pc = "exited"
            /\ RunsOf(IndirectEvents) =
                   [i \in 1..Len(m) |-> Run(m[i], "--version")]
            /\ SelectSeq(IndirectEvents, IsFound) =
                   LET good == SelectSeq(m, ProbeOk)
                   IN  [i \in 1..Len(good) |->
                           Log("info", "Found", good[i],
                               ProbedVersion(good[i]))]

\* the first candidate fails its probe and a later one, the only one, passes
C7_Witness ==
    /\ Ambiguous
    /\ ~ProbeOk(PgConfigs.matches[1])
    /\ Cardinality({i \in 1..PgConfigs.found : ProbeOk(PgConfigs.matches[i])}) = 1

----------------------------------------------------------------------------
(* C8 *)

\* every pg_config entry of the PATH names the same real file, and there are
\* at least two of them
AllAliases ==
    /\ Tried(3)
    /\ AllPgConfigs.found >= 2
    /\ \A i \in 1..AllPgConfigs.found :
           /\ realpath(AllPgConfigs.matches[i]).ok
           /\ realpath(AllPgConfigs.matches[i]).real =
                  realpath(AllPgConfigs.matches[1]).real

\* C8: when all the pg_config entries are links to one real file the
\* deduplication keeps the first entry alone, the ambiguous branch is not
\* entered, and the strategy does what the single-candidate case does with
\* that entry: pg_config --bindir, the check that psql exists, its probe.
C8_AliasesAreOneCandidate ==
    AllAliases =>
        LET c == AllPgConfigs.matches[1]
        IN  /\ PgConfigs.ok /\ PgConfigs.matches = <<c>>
            /\ \A k \in 1..Len(IndirectEvents) :
                   IndirectEvents[k].kind = "log" =>
                       IndirectEvents[k].text \notin
                           {"Found", "HINT: export PG_CONFIG",
                            "Found more than one pg_config entry in current PATH"}
            /\ RunsOf(IndirectEvents) =
                   <<Run(c, "--bindir")>> \o
                   (IF DirContainsPsql(c)
                    THEN <<Run(ReportedPsql(c), "--version")>> ELSE <<>>)
            /\ pc = (IF DirContainsPsql(c) /\ ProbeOk(ReportedPsql(c))
                     THEN "returned" ELSE "exited")

\* two entries in different directories are links to one pg_config, which
\* leads to a working psql
C8_Witness ==
    /\ AllAliases
    /\ AllPgConfigs.matches[1] # AllPgConfigs.matches[2]
    /\ pc = "returned"

----------------------------------------------------------------------------
(* C9 *)

\* C9 as stated: whenever find_pg_commands returns, psql, pg_dump and
\* pg_restore all name files that exist.
C9_AllThreePathsExist ==
    pc = "returned" =>
        /\ file_exists(pgPaths.psql)
        /\ file_exists(pgPaths.pg_dump)
        /\ file_exists(pgPaths.pg_restore)

\* C9 amended: whenever find_pg_commands returns, psql names a file that
\* exists; pg_dump and pg_restore exist exactly when the directory of psql
\* holds a file of that name.
C9_PsqlExistsSiblingsIfPresent ==
    pc = "returned" =>
        /\ file_exists(pgPaths.psql)
        /\ file_exists(pgPaths.pg_dump) <=>
               file_exists(MkPath(DirOf(pgPaths.psql), "pg_dump"))
        /\ file_exists(pgPaths.pg_restore) <=>
               file_exists(MkPath(DirOf(pgPaths.psql), "pg_restore"))

\* find_pg_commands returns and pg_restore is missing beside psql
C9_Witness ==
    /\ pc = "returned"
    /\ file_exists(pgPaths.pg_dump)
    /\ ~file_exists(pgPaths.pg_restore)

----------------------------------------------------------------------------
(* C10 *)

VersionProbes == {i \in 1..Len(events) :
                     IsRun(events[i]) /\ events[i].arg = "--version"}

\* C10: whenever find_pg_commands returns, pg_version is not empty and is
\* the version parsed from the --version output of the psql stored at
\* return, which is the last program that was probed.
C10_VersionIsOfStoredPsql ==
    pc = "returned" =>
        /\ pgPaths.pg_version # ""
        /\ ProbeOk(pgPaths.psql)
        /\ pgPaths.pg_version = ProbedVersion(pgPaths.psql)
        /\ VersionProbes # {}
        /\ \A i \in VersionProbes :
               (\A j \in VersionProbes : j <= i)
                   => events[i].path = pgPaths.psql

\* find_pg_commands returns a psql found after an earlier strategy had
\* stored another psql and failed to probe it
C10_Witness ==
    /\ pc = "returned"
    /\ Tried(2)
    /\ \E i \in VersionProbes :
           /\ events[i].path # pgPaths.psql
           /\ NameOf(events[i].path) = "psql"

----------------------------------------------------------------------------
(* C11 *)

\* what the environment makes of each strategy; no sibling tool is looked at
HintSucceeds ==
    /\ HintNamesExistingFile
    /\ DirContainsPsql(env.PG_CONFIG.value)
    /\ ProbeOk(ReportedPsql(env.PG_CONFIG.value))
DirectFound == search_path("psql").ok /\ search_path("psql").found > 0
DirectSucceeds == ProbeOk(search_path("psql").matches[1])
IndirectSucceeds ==
    /\ AllPgConfigs.ok /\ PgConfigs.ok /\ PgConfigs.found = 1
    /\ DirContainsPsql(PgConfigs.matches[1])
    /\ ProbeOk(ReportedPsql(PgConfigs.matches[1]))
ResolutionSucceeds ==
    \/ HintSucceeds
    \/ ~HintSucceeds /\ DirectFound /\ DirectSucceeds
    \/ ~HintSucceeds /\ ~DirectFound /\ IndirectSucceeds

\* C11: after a successful strategy pg_dump and pg_restore are the psql
\* path with the file name replaced, whether or not these files exist, and
\* whether the resolution succeeds is decided by psql and pg_config alone:
\* a missing sibling never makes it fail.
C11_SiblingsDerivedWithoutCheck ==
    /\ pc = "returned" =>
           /\ pgPaths.pg_dump = <<pgPaths.psql[1], "pg_dump">>
           /\ pgPaths.pg_restore = <<pgPaths.psql[1], "pg_restore">>
    /\ Finished => ((pc = "returned") <=> ResolutionSucceeds)

\* the indirect strategy succeeds in a directory that holds no pg_restore
C11_Witness ==
    /\ pc = "returned"
    /\ Tried(3)
    /\ ~file_exists(MkPath(DirOf(pgPaths.psql), "pg_restore"))

----------------------------------------------------------------------------
(* Reading a call of pg_dump_db *)

\* the records the call of pg_dump_db added to the trace
DumpEvents ==
    LET k == CHOOSE i \in 1..Len(events) : events[i].kind = "setenv"
    IN  SubSeq(events, k, Len(events))

\* the command line pg_dump_db was to run, written out in full
FullCommandLine ==
    PathString(pgPaths.pg_dump) \o " -Fc -d " \o dump.pguri
        \o " --section " \o dump.section \o " --file " \o dump.filename

IsCommandLog(e) == e.kind = "log" /\ e.arg = "command"

\* the command line pg_dump_db logged
LoggedCommandLine == SelectSeq(DumpEvents, IsCommandLog)[1].text

----------------------------------------------------------------------------
(* C12 *)

\* C12 as stated: a command line shorter than BUFSIZE is logged in full; one
\* that is not shorter is logged as a prefix of it followed by the ellipsis,
\* and the logged line does not exceed BUFSIZE characters.
C12_LoggedLineWithinCapacity ==
    dump.called =>
        /\ Len(SelectSeq(DumpEvents, IsCommandLog)) = 1
        /\ Len(FullCommandLine) < BUFSIZE =>
               LoggedCommandLine = FullCommandLine
        /\ Len(FullCommandLine) >= BUFSIZE =>
               /\ \E k \in 0..Len(FullCommandLine) :
                      LoggedCommandLine =
                          SubSeq(FullCommandLine, 1, k) \o "..."
               /\ Len(LoggedCommandLine) <= BUFSIZE

\* C12 amended: a command line shorter than BUFSIZE is logged in full; one
\* that is not shorter is logged as its first BUFSIZE - 1 characters followed
\* by the ellipsis, a line of BUFSIZE + 2 characters.
C12_LoggedLineIsPrefixAndEllipsis ==
    dump.called =>
        /\ Len(SelectSeq(DumpEvents, IsCommandLog)) = 1
        /\ Len(FullCommandLine) < BUFSIZE =>
               LoggedCommandLine = FullCommandLine
        /\ Len(FullCommandLine) >= BUFSIZE =>
               /\ LoggedCommandLine =
                      SubSeq(FullCommandLine, 1, BUFSIZE - 1) \o "..."
               /\ Len(LoggedCommandLine) = BUFSIZE + 2

\* the command line is exactly BUFSIZE characters long
C12_Witness ==
    /\ dump.called
    /\ Len(FullCommandLine) = BUFSIZE

----------------------------------------------------------------------------
(* C13 *)

IsLifetime(e) == e.kind \in {"run", "initialize", "free"}

\* the creations and releases of Programs, in trace order
Lifetimes == SelectSeq(events, IsLifetime)

\* C13: every Program that psql_version, set_psql_from_config_bindir and
\* pg_dump_db create is released exactly once before the function returns:
\* in the trace each creation is followed by the release of that Program
\* before any other creation, and no release comes without its creation.
C13_ProgramsFreedOnce ==
    /\ Len(Lifetimes) % 2 = 0
    /\ \A i \in 1..Len(Lifetimes) :
           IF i % 2 = 1
           THEN /\ Lifetimes[i].kind \in {"run", "initialize"}
                /\ Lifetimes[i + 1] =
                       Free(Lifetimes[i].path, Lifetimes[i].arg)
           ELSE Lifetimes[i].kind = "free"

IsParseRead(e) == e.kind = "read" /\ e.text = "parse_version_number"

\* pg_dump could not be launched, after a psql whose --version output did
\* not parse and a pg_config that was run
C13_Witness ==
    /\ dump.called
    /\ dump.program.returnCode = -1
    /\ \E i \in 1..Len(events) :
           /\ IsParseRead(events[i])
           /\ ~parse_version_number(
                   run_program(events[i].path, "--version").stdOut).ok
    /\ \E i \in 1..Len(events) : events[i].arg = "--bindir"

----------------------------------------------------------------------------
(* C14 *)

IsParseError(e) ==
    e.kind = "log" /\ e.level = "error" /\ e.text = "Unable to parse output"

\* C14: whenever pg_config --bindir ran and its output has more than one
\* line or no line, set_psql_from_config_bindir logs the parse error and
\* fails; it joins the psql path only after an output of exactly one line.
C14_ExactlyOneLineOrParseError ==
    \A i \in 1..Len(events) :
        (IsRun(events[i]) /\ events[i].arg = "--bindir") =>
            LET prog == run_program(events[i].path, "--bindir")
            IN  prog.returnCode = 0 =>
                    IF Len(prog.stdOut) = 1
                    THEN /\ ~IsParseError(events[i + 2])
                         /\ events[i + 2] = Read(events[i].path, "--bindir",
                                                 "join_path_components")
                    ELSE /\ IsParseError(events[i + 2])
                         /\ events[i + 3] = Free(events[i].path, "--bindir")

----------------------------------------------------------------------------
(* C15 *)

IsOutputLog(e) == e.kind = "log" /\ e.arg = "output"

\* the records that replay captured output, in trace order
Replayed == SelectSeq(DumpEvents, IsOutputLog)

\* the lines a stream captured, none if its buffer is absent
Captured(stream) == IF stream.present THEN stream.lines ELSE <<>>

FirstLines(lines, n) ==
    IF Len(lines) <= n THEN lines ELSE SubSeq(lines, 1, n)

ErrorRecords(lines) ==
    [i \in 1..Len(lines) |->
        Log("error", lines[i], pgPaths.pg_dump, "output")]

\* the release of the Program is the last record and follows the replay
ReplayedBeforeReturn ==
    /\ DumpEvents[Len(DumpEvents)].kind = "free"
    /\ \A i \in 1..Len(DumpEvents) :
           IsOutputLog(DumpEvents[i]) => i < Len(DumpEvents)

\* C15 as stated: pg_dump_db returns true exactly when pg_dump completed
\* with return code zero; on a non-zero return code all captured lines of
\* standard output, then of standard error, are replayed at error severity
\* before it returns; on a zero return code no captured output is logged.
C15_AllCapturedLinesReplayed ==
    dump.called =>
        /\ dump.ok <=> dump.program.returnCode = 0
        /\ dump.program.returnCode # 0 =>
               /\ Replayed = ErrorRecords(Captured(dump.program.stdOut))
                             \o ErrorRecords(Captured(dump.program.stdErr))
               /\ ReplayedBeforeReturn
        /\ dump.program.returnCode = 0 => Replayed = <<>>

\* C15 amended: as above, but of each stream only the first BUFSIZE lines
\* are replayed.
C15_FirstLinesReplayed ==
    dump.called =>
        /\ dump.ok <=> dump.program.returnCode = 0
        /\ dump.program.returnCode # 0 =>
               /\ Replayed =
                      ErrorRecords(FirstLines(
                          Captured(dump.program.stdOut), BUFSIZE))
                      \o ErrorRecords(FirstLines(
                          Captured(dump.program.stdErr), BUFSIZE))
               /\ ReplayedBeforeReturn
        /\ dump.program.returnCode = 0 => Replayed = <<>>

\* pg_dump exited non-zero with more than BUFSIZE lines on both streams
C15_Witness ==
    /\ dump.called
    /\ dump.program.returnCode > 0
    /\ Len(Captured(dump.program.stdOut)) > BUFSIZE
    /\ Len(Captured(dump.program.stdErr)) > BUFSIZE
    /\ Len(Replayed) = 2 * BUFSIZE

----------------------------------------------------------------------------
(* C16 *)

\* a pg_config found on the PATH has no real path
ResolutionError ==
    /\ AllPgConfigs.ok
    /\ \E i \in 1..AllPgConfigs.found : ~realpath(AllPgConfigs.matches[i]).ok

ZeroMatches == AllPgConfigs.ok /\ PgConfigs.ok /\ PgConfigs.found = 0

\* C16: when the resolution of symbolic links fails for a pg_config found
\* on the PATH, the indirect strategy fails, launches no subprocess, stores
\* nothing, and ends on the error record of the failed resolution; with no
\* pg_config at all it ends on a warning instead, a different record.
C16_ResolutionErrorIsExplicit ==
    Tried(3) =>
        /\ ResolutionError =>
               /\ ~strategies[3].ok
               /\ exitCode = EXIT_CODE_PGCTL
               /\ IndirectEvents =
                      <<Log("error", "Failed to resolve symlinks", NoPath, "")>>
               /\ pgPaths.pg_version = ""
               /\ pgPaths.pg_dump = NoPath
        /\ ZeroMatches =>
               /\ ~strategies[3].ok
               /\ IndirectEvents =
                      <<Log("warn",
                            "Failed to find either psql or pg_config in PATH",
                            NoPath, "")>>

\* one pg_config does not resolve while another one is valid: it reports a
\* directory that holds a psql whose version probe succeeds
C16_Witness ==
    /\ Tried(3)
    /\ ResolutionError
    /\ \E i \in 1..AllPgConfigs.found :
           /\ realpath(AllPgConfigs.matches[i]).ok
           /\ DirContainsPsql(AllPgConfigs.matches[i])
           /\ ProbeOk(ReportedPsql(AllPgConfigs.matches[i]))

----------------------------------------------------------------------------
(* C17 *)

HintSucceeded == strategies = <<[name |-> "PG_CONFIG", ok |-> TRUE]>>

\* the position in the call's trace of its one record of a kind
DumpIndex(kind) ==
    CHOOSE i \in 1..Len(DumpEvents) : DumpEvents[i].kind = kind

CommandLogIndex ==
    CHOOSE i \in 1..Len(DumpEvents) : IsCommandLog(DumpEvents[i])

\* C17: after a resolution that succeeded through the hint, pg_dump_db
\* builds the vector pg_dump (in the directory of psql), -Fc, -d, the
\* connection string, --section, the section, --file, the file name and the
\* terminator; PGCONNECT_TIMEOUT is set before the subprocess is launched
\* and the command line is logged before the execution.
C17_ArgumentsAndOrder ==
    (dump.called /\ HintSucceeded) =>
        /\ pgPaths.psql = ReportedPsql(env.PG_CONFIG.value)
        /\ dump.program.args =
               <<DirOf(pgPaths.psql) \o "/pg_dump", "-Fc", "-d", dump.pguri,
                 "--section", dump.section, "--file", dump.filename,
                 ArgsEnd>>
        /\ DumpEvents[1] =
               Setenv("PGCONNECT_TIMEOUT", POSTGRES_CONNECT_TIMEOUT)
        /\ Len(SelectSeq(DumpEvents, LAMBDA e : e.kind = "execute")) = 1
        /\ DumpIndex("setenv") < DumpIndex("execute")
        /\ CommandLogIndex < DumpIndex("execute")

C17_Witness ==
    /\ dump.called
    /\ HintSucceeded
    /\ dump.ok
    /\ DirOf(pgPaths.psql) = PgBin

----------------------------------------------------------------------------
(* C18 *)

Severities == {"debug", "info", "warn", "error"}

\* the records of a stream: one per line of its first BUFSIZE lines
StreamRecords(level, stream) ==
    LET lines == FirstLines(Captured(stream), BUFSIZE)
    IN  [i \in 1..Len(lines) |->
            Log(level, lines[i], pgPaths.pg_dump, "output")]

\* C18: for the Program of a pg_dump that ran and any two severities,
\* log_program_output emits one record per captured line, at most BUFSIZE
\* per stream, the lines of the standard output in their order before those
\* of the standard error, each at the severity of its stream, and nothing
\* for a stream whose buffer is absent; the replay of a failed pg_dump is
\* the one at error severity for both streams.
C18_OneRecordPerLine ==
    dump.called =>
        /\ \A out \in Severities, err \in Severities :
               LET records ==
                       SelectSeq(log_program_output(dump.program,
                                     pgPaths.pg_dump, out, err),
                                 IsOutputLog)
                   outs == StreamRecords(out, dump.program.stdOut)
                   errs == StreamRecords(err, dump.program.stdErr)
               IN  /\ Len(outs) <= BUFSIZE
                   /\ Len(errs) <= BUFSIZE
                   /\ ~dump.program.stdOut.present => outs = <<>>
                   /\ ~dump.program.stdErr.present => errs = <<>>
                   /\ records = outs \o errs
        /\ ~dump.ok =>
               Replayed = StreamRecords("error", dump.program.stdOut)
                          \o StreamRecords("error", dump.program.stdErr)

\* a standard output of two lines was replayed while the buffer of the
\* standard error was absent
C18_Witness ==
    /\ dump.called
    /\ ~dump.ok
    /\ dump.program.stdOut.present
    /\ ~dump.program.stdErr.present
    /\ Len(Replayed) = 2

----------------------------------------------------------------------------
(* C19 *)

IsRead(e) == e.kind = "read"

\* the creations, executions and releases before position i of the trace
Before(i) ==
    {j \in 1..(i - 1) : events[j].kind \in {"run", "execute", "free"}}

Latest(S) == CHOOSE j \in S : \A k \in S : k <= j

\* the position of the first release after position i
NextFree(i) ==
    Latest({j \in i..Len(events) :
               /\ events[j].kind = "free"
               /\ \A k \in i..(j - 1) : events[k].kind # "free"})

ReadsBetween(i, j, by) ==
    {k \in (i + 1)..(j - 1) : IsRead(events[k]) /\ events[k].text = by}

\* C19: captured output is read only while its Program is live: before
\* every read the latest of the runs, executions and releases is the run or
\* the execution of the Program that is read.  The bindir line is joined,
\* the version output is parsed and the output of pg_dump is logged between
\* the run and the release.
C19_NoReadAfterFree ==
    /\ \A i \in 1..Len(events) :
           IsRead(events[i]) =>
               /\ Before(i) # {}
               /\ events[Latest(Before(i))].kind \in {"run", "execute"}
               /\ events[Latest(Before(i))].path = events[i].path
    /\ \A i \in 1..Len(events) :
           IsRun(events[i]) =>
               LET prog == run_program(events[i].path, events[i].arg)
               IN  /\ (events[i].arg = "--bindir" /\ ReportsDir(events[i].path))
                          => ReadsBetween(i, NextFree(i),
                                          "join_path_components") # {}
                   /\ (events[i].arg = "--version" /\ prog.returnCode = 0)
                          => ReadsBetween(i, NextFree(i),
                                          "parse_version_number") # {}
    /\ \A i \in 1..Len(events) :
           (/\ events[i].kind = "execute"
            /\ ~dump.ok
            /\ dump.program.stdOut.present \/ dump.program.stdErr.present)
               => ReadsBetween(i, NextFree(i), "log_program_output") # {}

\* a bindir line was joined, a version output parsed and the output of a
\* failed pg_dump logged
C19_Witness ==
    /\ dump.called
    /\ \E i \in 1..Len(events) :
           IsRead(events[i]) /\ events[i].text = "join_path_components"
    /\ \E i \in 1..Len(events) : IsParseRead(events[i])
    /\ \E i \in 1..Len(events) :
           IsRead(events[i]) /\ events[i].text = "log_program_output"

----------------------------------------------------------------------------
(* C20 *)

SeveralCandidates ==
    AllPgConfigs.ok /\ PgConfigs.ok /\ PgConfigs.found >= 2

Returned(name) == strategies'[1].name = name

\* C20: whatever the caller's PostgresPaths hold, a call of
\* set_psql_from_config_bindir that fails leaves psql as it was; a call of
\* psql_version leaves psql as it was, and pg_version too when it fails; a
\* call of set_psql_from_pg_config with several candidates runs one probe
\* per candidate and leaves psql and pg_version as they were.
C20_FailuresLeavePathsUntouched ==
    [][ pc = "call" =>
          /\ (Returned("set_psql_from_config_bindir") /\ ~strategies'[1].ok)
                 => pgPaths'.psql = pgPaths.psql
          /\ Returned("psql_version")
                 => /\ pgPaths'.psql = pgPaths.psql
                    /\ ~strategies'[1].ok
                           => pgPaths'.pg_version = pgPaths.pg_version
          /\ (Returned("set_psql_from_pg_config") /\ SeveralCandidates)
                 => /\ ~strategies'[1].ok
                    /\ Len(RunsOf(events')) = PgConfigs.found
                    /\ pgPaths'.psql = pgPaths.psql
                    /\ pgPaths'.pg_version = pgPaths.pg_version
      ]_vars

\* several candidates were probed, one of them with success, and the caller's
\* psql and version are still the ones it came with
C20_Witness ==
    /\ pc = "called"
    /\ strategies[1].name = "set_psql_from_pg_config"
    /\ SeveralCandidates
    /\ \E i \in 1..Len(events) : IsFound(events[i])
    /\ pgPaths.psql = MkPath(PgBin, "psql")
    /\ pgPaths.pg_version = "9.6"

\* the directory reported holds no psql while the caller's psql is set
C20_WitnessBindir ==
    /\ pc = "called"
    /\ strategies[1] = [name |-> "set_psql_from_config_bindir", ok |-> FALSE]
    /\ \E i \in 1..Len(events) :
           events[i].kind = "log" /\ events[i].text = "Failed to find psql"
    /\ pgPaths.psql = MkPath(LocalBin, "psql")

====
